---- MODULE Spec2Model ----
(***************************************************************************)
(* Model of pylib/anki/rsbackend.py: the Python side of the bridge to the  *)
(* Rust engine.  Wire messages are records whose "value" field is what     *)
(* WhichOneof("value") returns; NONE stands for Python's None (no variant  *)
(* of the oneof is set, or the variant is unknown to this client).         *)
(***************************************************************************)
EXTENDS Integers, Sequences, FiniteSets, TLC

\* ---- bounds of the model ------------------------------------------------
MaxOrds == 2
MaxReqs == 2
MaxNodes == 2
MaxTags == 2
MaxCount == 1

NONE == "NONE"

Infos == {"bad tag", "timeout"}
\* (col_path, media_folder_path, media_db_path) the constructor is called with
PathArgs == {<<"/col.anki2", "/media", "/media.db">>,
             <<"/media", "/col.anki2", "/col.anki2">>}
Texts == {"", "txt"}
Stamps == {0, 90}

SeqUpTo(S, n) == UNION {[1..k -> S] : k \in 0..n}

\* ---- wire schema (anki.backend_pb2 as used by rsbackend.py) ------------
InfoErrorKinds == {"network_error", "io_error", "db_error", "invalid_input",
                   "ankiweb_misc_error"}
ErrorKinds == InfoErrorKinds \cup {"interrupted", "template_parse", "ankiweb_auth_failed"}

\* pb.BackendError: the fields of the variants that are not set read as the
\* protobuf defaults ("" and False)
BackendErrors ==
    {[value |-> v, info |-> i, q_side |-> FALSE] : v \in InfoErrorKinds, i \in Infos}
    \cup {[value |-> "template_parse", info |-> i, q_side |-> q] : i \in Infos, q \in BOOLEAN}
    \cup {[value |-> v, info |-> "", q_side |-> FALSE] :
            v \in {"interrupted", "ankiweb_auth_failed", NONE}}

\* err.<field>.info and err.template_parse.q_side: reading a variant that is
\* not the populated one yields the default
ErrInfo(err, field) == IF err.value = field THEN err.info ELSE ""
ErrQSide(err) == IF err.value = "template_parse" THEN err.q_side ELSE FALSE

\* ---- native exceptions ---------------------------------------------------
Exc(cls, args) == [tag |-> "exc", cls |-> cls, args |-> args]

StringErrorClasses == {"StringError", "NetworkError", "IOError", "DBError",
                       "TemplateError", "AnkiWebError"}

\* StringError.__str__
StringError_str(e) == e.args[1]

\* TemplateError.q_side
q_side(e) == e.args[2]

\* anki.types.assert_impossible_literal: raises, never returns
assert_impossible_literal(arg) == [tag |-> "fatal", arg |-> arg]

proto_exception_to_native_swallow(err) ==
    IF err.value = "interrupted" THEN Exc("Interrupted", <<>>)
    ELSE IF err.value = "network_error" THEN Exc("NetworkError", <<ErrInfo(err, "network_error")>>)
    ELSE IF err.value = "io_error" THEN Exc("IOError", <<ErrInfo(err, "io_error")>>)
    ELSE IF err.value = "db_error" THEN Exc("DBError", <<ErrInfo(err, "db_error")>>)
    ELSE IF err.value = "template_parse"
        THEN Exc("TemplateError", <<ErrInfo(err, "template_parse"), ErrQSide(err)>>)
    ELSE IF err.value = "ankiweb_auth_failed" THEN Exc("AnkiWebAuthFailed", <<>>)
    ELSE IF err.value = "ankiweb_misc_error"
        THEN Exc("AnkiWebError", <<ErrInfo(err, "ankiweb_misc_error")>>)
    ELSE Exc("StringError", <<ErrInfo(err, "invalid_input")>>)

proto_exception_to_native(err) ==
    IF err.value = "interrupted" THEN Exc("Interrupted", <<>>)
    ELSE IF err.value = "network_error" THEN Exc("NetworkError", <<ErrInfo(err, "network_error")>>)
    ELSE IF err.value = "io_error" THEN Exc("IOError", <<ErrInfo(err, "io_error")>>)
    ELSE IF err.value = "db_error" THEN Exc("DBError", <<ErrInfo(err, "db_error")>>)
    ELSE IF err.value = "template_parse"
        THEN Exc("TemplateError", <<ErrInfo(err, "template_parse"), ErrQSide(err)>>)
    ELSE IF err.value = "invalid_input" THEN Exc("StringError", <<ErrInfo(err, "invalid_input")>>)
    ELSE IF err.value = "ankiweb_auth_failed" THEN Exc("AnkiWebAuthFailed", <<>>)
    ELSE IF err.value = "ankiweb_misc_error"
        THEN Exc("AnkiWebError", <<ErrInfo(err, "ankiweb_misc_error")>>)
    ELSE assert_impossible_literal(err.value)

\* ---- template requirements -----------------------------------------------
\* field ordinals carried by a requirement
Ords == {0, 1}

\* pb.TemplateRequirement; ords is the ordinal collection of the populated
\* any/all variant (the "none" variant is an Empty message)
TemplateRequirements ==
    [value : {"any", "all"}, ords : SeqUpTo(Ords, MaxOrds)]
    \cup [value : {"none", NONE}, ords : {<<>>}]

\* req.any.ords / req.all.ords
ReqOrds(req, field) == IF req.value = field THEN req.ords ELSE <<>>

RECURSIVE Insert(_, _)
Insert(x, s) ==
    IF s = <<>> THEN <<x>>
    ELSE IF x <= Head(s) THEN <<x>> \o s
    ELSE <<Head(s)>> \o Insert(x, Tail(s))

\* Python's sorted() on a list of ints
RECURSIVE sorted(_)
sorted(s) == IF s = <<>> THEN <<>> ELSE Insert(Head(s), sorted(Tail(s)))

legacy_req_unsorted(idx, req) ==
    IF req.value = "any" THEN <<idx, "any", ReqOrds(req, "any")>>
    ELSE IF req.value = "all" THEN <<idx, "all", ReqOrds(req, "all")>>
    ELSE <<idx, "none", <<>>>>

\* body of the loop of proto_template_reqs_to_legacy for (idx, req)
legacy_req(idx, req) ==
    IF req.value = "any" THEN <<idx, "any", sorted(ReqOrds(req, "any"))>>
    ELSE IF req.value = "all" THEN <<idx, "all", sorted(ReqOrds(req, "all"))>>
    ELSE <<idx, "none", <<>>>>

proto_template_reqs_to_legacy(reqs) ==
    [i \in 1..Len(reqs) |-> legacy_req(i - 1, reqs[i])]

\* ---- audio/video tags ----------------------------------------------------
DefaultTTS == [field_text |-> "", lang |-> "", voices |-> <<>>, other_args |-> <<>>,
               speed |-> 0]

\* pb.AVTag
AVTags ==
    {[value |-> "sound_or_video", sound_or_video |-> "a.mp3", tts |-> DefaultTTS],
     [value |-> "tts", sound_or_video |-> "",
      tts |-> [field_text |-> "hello", lang |-> "en_US", voices |-> <<"Bob">>,
               other_args |-> <<>>, speed |-> 1]],
     [value |-> NONE, sound_or_video |-> "", tts |-> DefaultTTS]}

SoundOrVideoTag(filename) == [cls |-> "SoundOrVideoTag", filename |-> filename]

TTSTag(field_text, lang, voices, other_args, speed) ==
    [cls |-> "TTSTag", field_text |-> field_text, lang |-> lang, voices |-> voices,
     other_args |-> other_args, speed |-> speed]

av_tag_to_native(tag) ==
    IF tag.value = "sound_or_video" THEN SoundOrVideoTag(tag.sound_or_video)
    ELSE TTSTag(tag.tts.field_text, tag.tts.lang, tag.tts.voices, tag.tts.other_args,
                tag.tts.speed)

\* ---- rendered template nodes ---------------------------------------------
DefaultReplacement == [field_name |-> "", current_text |-> "", filters |-> <<>>]

\* pb.RenderedTemplateNode
RenderedTemplateNodes ==
    {[value |-> "text", text |-> "Hello ", replacement |-> DefaultReplacement],
     [value |-> "replacement", text |-> "",
      replacement |-> [field_name |-> "Front", current_text |-> "abc",
                       filters |-> <<"cloze">>]],
     [value |-> NONE, text |-> "", replacement |-> DefaultReplacement]}

TemplateReplacement(field_name, current_text, filters) ==
    [cls |-> "TemplateReplacement", field_name |-> field_name,
     current_text |-> current_text, filters |-> filters]

\* a plain str element of a TemplateReplacementList
StrNode(text) == [cls |-> "str", text |-> text]

replacement_node_to_native(node) ==
    IF node.value = "text" THEN StrNode(node.text)
    ELSE TemplateReplacement(node.replacement.field_name, node.replacement.current_text,
                             node.replacement.filters)

proto_replacement_list_to_native(nodes) ==
    [i \in 1..Len(nodes) |-> replacement_node_to_native(nodes[i])]

\* ---- progress ------------------------------------------------------------
Counts == 0..MaxCount

DefaultMediaSync == [value |-> NONE, downloaded_changes |-> 0, downloaded_files |-> 0,
                     uploaded |-> [files |-> 0, deletions |-> 0], removed_files |-> 0]

\* pb.MediaSyncProgress
MediaSyncProgresses ==
    {[DefaultMediaSync EXCEPT !.value = "downloaded_changes", !.downloaded_changes = n] :
        n \in Counts}
    \cup {[DefaultMediaSync EXCEPT !.value = "downloaded_files", !.downloaded_files = n] :
        n \in Counts}
    \cup {[DefaultMediaSync EXCEPT !.value = "uploaded", !.uploaded = [files |-> f, deletions |-> d]] :
        f \in Counts, d \in Counts}
    \cup {[DefaultMediaSync EXCEPT !.value = "removed_files", !.removed_files = n] :
        n \in Counts}
    \cup {DefaultMediaSync}

\* pb.Progress
Progresses ==
    {[value |-> "media_sync", media_sync |-> m] : m \in MediaSyncProgresses}
    \cup {[value |-> NONE, media_sync |-> DefaultMediaSync]}

MediaSyncDownloadedChanges(changes) ==
    [cls |-> "MediaSyncDownloadedChanges", changes |-> changes]

MediaSyncDownloadedFiles(files) == [cls |-> "MediaSyncDownloadedFiles", files |-> files]

MediaSyncUploaded(files, deletions) ==
    [cls |-> "MediaSyncUploaded", files |-> files, deletions |-> deletions]

MediaSyncRemovedFiles(files) == [cls |-> "MediaSyncRemovedFiles", files |-> files]

Progress(kind, val) == [tag |-> "ok", kind |-> kind, val |-> val]

proto_progress_to_native_swapped(progress) ==
    IF progress.value = "media_sync" THEN
        LET ms == progress.media_sync
            pkind == "MediaSyncProgress" IN
        IF ms.value = "downloaded_changes"
            THEN Progress(pkind, MediaSyncDownloadedChanges(ms.downloaded_changes))
        ELSE IF ms.value = "downloaded_files"
            THEN Progress(pkind, MediaSyncDownloadedFiles(ms.downloaded_files))
        ELSE IF ms.value = "uploaded"
            THEN Progress(pkind, MediaSyncUploaded(ms.uploaded.deletions, ms.uploaded.files))
        ELSE IF ms.value = "removed_files"
            THEN Progress(pkind, MediaSyncRemovedFiles(ms.removed_files))
        ELSE assert_impossible_literal(ms.value)
    ELSE assert_impossible_literal(progress.value)

proto_progress_to_native(progress) ==
    IF progress.value = "media_sync" THEN
        LET ms == progress.media_sync
            pkind == "MediaSyncProgress" IN
        IF ms.value = "downloaded_changes"
            THEN Progress(pkind, MediaSyncDownloadedChanges(ms.downloaded_changes))
        ELSE IF ms.value = "downloaded_files"
            THEN Progress(pkind, MediaSyncDownloadedFiles(ms.downloaded_files))
        ELSE IF ms.value = "uploaded"
            THEN Progress(pkind, MediaSyncUploaded(ms.uploaded.files, ms.uploaded.deletions))
        ELSE IF ms.value = "removed_files"
            THEN Progress(pkind, MediaSyncRemovedFiles(ms.removed_files))
        ELSE assert_impossible_literal(ms.value)
    ELSE assert_impossible_literal(progress.value)

\* ---- command and response envelopes ---------------------------------------
Methods == {"template_requirements", "sched_timing_today", "render_card",
            "local_minutes_west", "strip_av_tags", "extract_av_tags",
            "expand_clozes_to_reveal_latex", "add_file_to_media_folder", "sync_media"}

Empty == [empty |-> TRUE]

SchedTimings == {[days_elapsed |-> 0, next_day_at |-> 0],
                 [days_elapsed |-> 1, next_day_at |-> 90]}

Out(variant, payload) == [value |-> variant, payload |-> payload]

\* pb.BackendOutput as the engine may send it
BackendOutputs ==
    {Out("error", e) : e \in BackendErrors}
    \cup {Out("template_requirements", [requirements |-> r]) :
            r \in SeqUpTo(TemplateRequirements, MaxReqs)}
    \cup {Out("sched_timing_today", t) : t \in SchedTimings}
    \cup {Out("render_card", [question_nodes |-> q, answer_nodes |-> a]) :
            q \in SeqUpTo(RenderedTemplateNodes, MaxNodes),
            a \in SeqUpTo(RenderedTemplateNodes, MaxNodes)}
    \cup {Out("local_minutes_west", n) : n \in Stamps}
    \cup {Out("strip_av_tags", t) : t \in Texts}
    \cup {Out("extract_av_tags", [text |-> t, av_tags |-> a]) :
            t \in Texts, a \in SeqUpTo(AVTags, MaxTags)}
    \cup {Out("expand_clozes_to_reveal_latex", t) : t \in Texts}
    \cup {Out("add_file_to_media_folder", t) : t \in Texts}
    \cup {Out("sync_media", Empty), Out(NONE, Empty)}

\* value of a field of the output oneof that is not the populated one
Default(name) ==
    CASE name = "error" -> [value |-> NONE, info |-> "", q_side |-> FALSE]
      [] name = "template_requirements" -> [requirements |-> <<>>]
      [] name = "sched_timing_today" -> [days_elapsed |-> 0, next_day_at |-> 0]
      [] name = "render_card" -> [question_nodes |-> <<>>, answer_nodes |-> <<>>]
      [] name = "local_minutes_west" -> 0
      [] name = "extract_av_tags" -> [text |-> "", av_tags |-> <<>>]
      [] name = "sync_media" -> Empty
      [] OTHER -> ""

\* output.<name>
Field(output, name) == IF output.value = name THEN output.payload ELSE Default(name)

\* pb.BackendInput built by the typed method, and the release_gil flag
Input(m) == [value |-> m, release_gil |-> (m = "sync_media")]

Returned(v) == [kind |-> "returned", value |-> v]
Raised(e) == [kind |-> "raised", exc |-> e]
NoResult == [kind |-> "none"]

run_command_no_raise(output) == Returned(output)

\* RustBackend._run_command from the parsing of the engine's bytes on
run_command(output) ==
    IF output.value = "error"
        THEN Raised(proto_exception_to_native(Field(output, "error")))
        ELSE Returned(output)

\* ---- typed command methods, from the return of _run_command on -----------
template_requirements(output) ==
    LET r == run_command(output) IN
    IF r.kind # "returned" THEN r
    ELSE Returned(proto_template_reqs_to_legacy(
            Field(r.value, "template_requirements").requirements))

sched_timing_today(output) ==
    LET r == run_command(output) IN
    IF r.kind # "returned" THEN r ELSE Returned(Field(r.value, "sched_timing_today"))

render_card(output) ==
    LET r == run_command(output) IN
    IF r.kind # "returned" THEN r
    ELSE LET out == Field(r.value, "render_card") IN
         Returned(<<proto_replacement_list_to_native(out.question_nodes),
                    proto_replacement_list_to_native(out.answer_nodes)>>)

local_minutes_west(output) ==
    LET r == run_command(output) IN
    IF r.kind # "returned" THEN r ELSE Returned(Field(r.value, "local_minutes_west"))

strip_av_tags(output) ==
    LET r == run_command(output) IN
    IF r.kind # "returned" THEN r ELSE Returned(Field(r.value, "strip_av_tags"))

extract_av_tags(output) ==
    LET r == run_command(output) IN
    IF r.kind # "returned" THEN r
    ELSE LET out == Field(r.value, "extract_av_tags") IN
         Returned(<<out.text, [i \in 1..Len(out.av_tags) |-> av_tag_to_native(out.av_tags[i])]>>)

expand_clozes_to_reveal_latex(output) ==
    LET r == run_command(output) IN
    IF r.kind # "returned" THEN r
    ELSE Returned(Field(r.value, "expand_clozes_to_reveal_latex"))

add_file_to_media_folder(output) ==
    LET r == run_command(output) IN
    IF r.kind # "returned" THEN r ELSE Returned(Field(r.value, "add_file_to_media_folder"))

sync_media(output) ==
    LET r == run_command(output) IN
    IF r.kind # "returned" THEN r ELSE Returned("None")

TypedMethod(m, output) ==
    CASE m = "template_requirements" -> template_requirements(output)
      [] m = "sched_timing_today" -> sched_timing_today(output)
      [] m = "render_card" -> render_card(output)
      [] m = "local_minutes_west" -> local_minutes_west(output)
      [] m = "strip_av_tags" -> strip_av_tags(output)
      [] m = "extract_av_tags" -> extract_av_tags(output)
      [] m = "expand_clozes_to_reveal_latex" -> expand_clozes_to_reveal_latex(output)
      [] m = "add_file_to_media_folder" -> add_file_to_media_folder(output)
      [] m = "sync_media" -> sync_media(output)

\* ---- progress callback -----------------------------------------------------
\* hooks.rust_progress_callback: the registered observer is handed the initial
\* value and the event, and answers observer_ret
rust_progress_callback(proceed, progress, observer_ret) == observer_ret

NoCallback == [kind |-> "none", calls |-> 0]

on_progress_always_continue(progress, observer_ret) ==
    LET native_progress == proto_progress_to_native(progress) IN
    IF native_progress.tag = "fatal"
        THEN [kind |-> "fatal", calls |-> 0, exc |-> native_progress]
        ELSE [kind |-> "returned", calls |-> 1, event |-> native_progress,
              value |-> TRUE]

\* RustBackend._on_progress: what the callback does and hands back to the engine
on_progress(progress, observer_ret) ==
    LET native_progress == proto_progress_to_native(progress) IN
    IF native_progress.tag = "fatal"
        THEN [kind |-> "fatal", calls |-> 0, exc |-> native_progress]
        ELSE [kind |-> "returned", calls |-> 1, event |-> native_progress,
              value |-> rust_progress_callback(TRUE, native_progress, observer_ret)]

\* ---- state -----------------------------------------------------------------
VARIABLES
    state,          \* lifecycle of the handle: "Uninitialized" or "Open"
    ctorArgs,       \* the arguments __init__ was called with
    backend,        \* self._backend: the engine handle, 0 before construction
    openCalls,      \* number of ankirspy.open_backend calls
    initMsg,        \* the BackendInit message handed to open_backend
    callback,       \* the engine's progress callback slot
    engineLog,      \* engine API calls made by the constructor, in order
    phase,          \* "idle", "inflight" (inside self._backend.command) or "done"
    method,         \* the typed method being executed
    sent,           \* the command envelope handed to the engine
    engineCalls,    \* self._backend.command calls made by this invocation
    response,       \* the response envelope the engine returned
    cmdResult,      \* how _run_command ended
    outcome,        \* how the typed method ended
    afterError,     \* the previous invocation on this handle raised
    lastProgress,   \* the progress message of the latest callback
    cbResult,       \* how the latest _on_progress call ended
    observerAnswer, \* what the observer answered in the latest callback
    interrupt       \* "no", "observer" (observer answered false) or "failed"

vars == <<state, ctorArgs, backend, openCalls, initMsg, callback, engineLog, phase,
          method, sent, engineCalls, response, cmdResult, outcome, afterError,
          lastProgress, cbResult, observerAnswer, interrupt>>

handleVars == <<state, ctorArgs, backend, openCalls, initMsg, callback, engineLog>>
progressVars == <<lastProgress, cbResult, observerAnswer, interrupt>>

NoArgs == [col_path |-> "", media_folder_path |-> "", media_db_path |-> ""]
NoInit == [collection_path |-> "", media_folder_path |-> "", media_db_path |-> ""]
NoProgress == [value |-> NONE, media_sync |-> DefaultMediaSync]

Init ==
    /\ state = "Uninitialized"
    /\ ctorArgs = NoArgs
    /\ backend = 0
    /\ openCalls = 0
    /\ initMsg = NoInit
    /\ callback = "none"
    /\ engineLog = <<>>
    /\ phase = "idle"
    /\ method = NONE
    /\ sent = [value |-> NONE, release_gil |-> FALSE]
    /\ engineCalls = 0
    /\ response = Out(NONE, Empty)
    /\ cmdResult = NoResult
    /\ outcome = NoResult
    /\ afterError = FALSE
    /\ lastProgress = NoProgress
    /\ cbResult = NoCallback
    /\ observerAnswer = "none"
    /\ interrupt = "no"

callVars == <<phase, method, sent, engineCalls, response, cmdResult, outcome, afterError>>

Construct_no_callback(col_path, media_folder_path, media_db_path) ==
    /\ state = "Uninitialized"
    /\ ctorArgs' = [col_path |-> col_path, media_folder_path |-> media_folder_path,
                    media_db_path |-> media_db_path]
    /\ initMsg' = [collection_path |-> col_path, media_folder_path |-> media_folder_path,
                   media_db_path |-> media_db_path]
    /\ openCalls' = openCalls + 1
    /\ backend' = openCalls + 1
    /\ callback' = callback
    /\ engineLog' = engineLog \o <<"open_backend">>
    /\ state' = "Open"
    /\ UNCHANGED <<callVars, progressVars>>

\* RustBackend.__init__
Construct(col_path, media_folder_path, media_db_path) ==
    /\ state = "Uninitialized"
    /\ ctorArgs' = [col_path |-> col_path, media_folder_path |-> media_folder_path,
                    media_db_path |-> media_db_path]
    /\ initMsg' = [collection_path |-> col_path, media_folder_path |-> media_folder_path,
                   media_db_path |-> media_db_path]
    /\ openCalls' = openCalls + 1
    /\ backend' = openCalls + 1
    /\ callback' = "_on_progress"
    /\ engineLog' = engineLog \o <<"open_backend", "set_progress_callback">>
    /\ state' = "Open"
    /\ UNCHANGED <<callVars, progressVars>>

\* a typed method up to and including the call of self._backend.command
Invoke(m) ==
    /\ state = "Open"
    /\ phase # "inflight"
    /\ phase' = "inflight"
    /\ method' = m
    /\ sent' = Input(m)
    /\ engineCalls' = 1
    /\ response' = Out(NONE, Empty)
    /\ cmdResult' = NoResult
    /\ outcome' = NoResult
    /\ afterError' = (outcome.kind = "raised")
    /\ lastProgress' = NoProgress
    /\ cbResult' = NoCallback
    /\ observerAnswer' = "none"
    /\ interrupt' = "no"
    /\ UNCHANGED handleVars

OnProgress_abort(p, observer_ret, engine_stops) ==
    /\ phase = "inflight"
    /\ method = "sync_media"
    /\ callback = "_on_progress"
    /\ LET r == on_progress(p, observer_ret) IN
        /\ lastProgress' = p
        /\ cbResult' = r
        /\ observerAnswer' = IF r.calls = 1 THEN observer_ret ELSE "none"
        /\ interrupt' = IF r.kind = "returned" /\ ~r.value THEN "observer"
                        ELSE IF r.kind = "fatal" /\ engine_stops /\ interrupt = "no"
                            THEN "failed"
                        ELSE interrupt
        /\ phase' = IF r.kind = "returned" /\ ~r.value THEN "done" ELSE phase
    /\ UNCHANGED <<handleVars, method, sent, engineCalls, response, cmdResult, outcome,
                   afterError>>

\* the engine calls the installed callback during a sync_media command
OnProgress(p, observer_ret, engine_stops) ==
    /\ phase = "inflight"
    /\ method = "sync_media"
    /\ callback = "_on_progress"
    /\ LET r == on_progress(p, observer_ret) IN
        /\ lastProgress' = p
        /\ cbResult' = r
        /\ observerAnswer' = IF r.calls = 1 THEN observer_ret ELSE "none"
        /\ interrupt' = IF r.kind = "returned" /\ ~r.value THEN "observer"
                        ELSE IF r.kind = "fatal" /\ engine_stops /\ interrupt = "no"
                            THEN "failed"
                        ELSE interrupt
    /\ UNCHANGED <<handleVars, callVars>>

\* what the engine may answer: once an interruption was requested, the
\* interrupted error or the completion of the sync
EngineAnswers(output) ==
    \/ interrupt = "no"
    \/ output = Out("error", [value |-> "interrupted", info |-> "", q_side |-> FALSE])
    \/ output = Out("sync_media", Empty)

EngineRespond_retry ==
    /\ phase = "inflight"
    /\ \E output \in BackendOutputs :
        /\ EngineAnswers(output)
        /\ IF output.value = "error" /\ engineCalls < 2
            THEN /\ engineCalls' = engineCalls + 1
                 /\ UNCHANGED <<phase, response, cmdResult, outcome>>
            ELSE /\ response' = output
                 /\ cmdResult' = run_command(output)
                 /\ outcome' = TypedMethod(method, output)
                 /\ phase' = "done"
                 /\ UNCHANGED engineCalls
    /\ lastProgress' = NoProgress
    /\ cbResult' = NoCallback
    /\ observerAnswer' = "none"
    /\ UNCHANGED <<handleVars, method, sent, afterError, interrupt>>

\* self._backend.command returns some output: the rest of _run_command and of
\* the typed method
EngineRespond ==
    /\ phase = "inflight"
    /\ response' \in BackendOutputs
    /\ EngineAnswers(response')
    /\ cmdResult' = run_command(response')
    /\ outcome' = TypedMethod(method, response')
    /\ phase' = "done"
    /\ lastProgress' = NoProgress
    /\ cbResult' = NoCallback
    /\ observerAnswer' = "none"
    /\ UNCHANGED <<handleVars, method, sent, engineCalls, afterError, interrupt>>

Next ==
    \/ \E a \in PathArgs : Construct(a[1], a[2], a[3])
    \/ \E m \in Methods : Invoke(m)
    \/ \E p \in Progresses, b \in BOOLEAN, e \in BOOLEAN : OnProgress(p, b, e)
    \/ EngineRespond

Spec == Init /\ [][Next]_vars

\* The caller that only syncs media.  Invoke resets every variable of the call
\* and no guard reads afterError, so a sync_media call behaves the same here
\* as after any other command.
SyncNext ==
    \/ \E a \in PathArgs : Construct(a[1], a[2], a[3])
    \/ Invoke("sync_media")
    \/ \E p \in Progresses, b \in BOOLEAN, e \in BOOLEAN : OnProgress(p, b, e)
    \/ EngineRespond

\* self._backend.command is a blocking call that returns: the engine's answer
\* is weakly fair
FairSpec ==
    Init /\ [][SyncNext]_vars /\ WF_vars(EngineRespond)

\* ---- properties --------------------------------------------------------------
Done == phase = "done"

PassThrough == {"sched_timing_today", "local_minutes_west", "strip_av_tags",
                "expand_clozes_to_reveal_latex", "add_file_to_media_folder"}

\* the value a typed method returns is built from the payload of its own variant
OwnPayloadExtracted ==
    LET own == response.payload
        v == outcome.value IN
    /\ method \in PassThrough => v = own
    /\ method = "template_requirements" => Len(v) = Len(own.requirements)
    /\ method = "render_card" =>
        /\ Len(v[1]) = Len(own.question_nodes)
        /\ Len(v[2]) = Len(own.answer_nodes)
    /\ method = "extract_av_tags" => v[1] = own.text /\ Len(v[2]) = Len(own.av_tags)
    /\ method = "sync_media" => v = "None"

\* C1: when the engine's response envelope is "error", _run_command raises what
\* proto_exception_to_native yields for that error and no payload comes back;
\* for any other variant it raises nothing and returns the decoded envelope,
\* from which the typed method extracts the payload of its own command; every
\* call ends in exactly one of the two ways.
C1_ErrorRaisesElseReturns ==
    Done =>
        /\ cmdResult.kind \in {"raised", "returned"}
        /\ response.value = "error" =>
            /\ cmdResult.kind = "raised"
            /\ cmdResult.exc = proto_exception_to_native(response.payload)
            /\ DOMAIN cmdResult = {"kind", "exc"}
            /\ outcome = cmdResult
        /\ response.value # "error" =>
            /\ cmdResult.kind = "returned"
            /\ cmdResult.value = response
            /\ DOMAIN cmdResult = {"kind", "value"}
            /\ outcome.kind = "returned"
            /\ response.value = method => OwnPayloadExtracted

C1_Witness ==
    /\ Done
    /\ afterError
    /\ method = "local_minutes_west"
    /\ response = Out("local_minutes_west", 90)
    /\ outcome = Returned(90)

ExpectedClass(v) ==
    CASE v = "interrupted" -> "Interrupted"
      [] v = "network_error" -> "NetworkError"
      [] v = "io_error" -> "IOError"
      [] v = "db_error" -> "DBError"
      [] v = "template_parse" -> "TemplateError"
      [] v = "invalid_input" -> "StringError"
      [] v = "ankiweb_auth_failed" -> "AnkiWebAuthFailed"
      [] v = "ankiweb_misc_error" -> "AnkiWebError"

\* C2: proto_exception_to_native maps each of the eight error discriminants to
\* the native error of the matching class with the engine's message verbatim
\* (str(e) is info; TemplateError also exposes q_side() equal to the wire flag,
\* kept out of the message; Interrupted and AnkiWebAuthFailed carry nothing);
\* any other discriminant, none set included, ends in the fatal assertion.
C2_ErrorClassification ==
    (Done /\ response.value = "error") =>
        LET err == response.payload
            e == cmdResult.exc IN
        IF err.value \in ErrorKinds THEN
            /\ e.tag = "exc"
            /\ e.cls = ExpectedClass(err.value)
            /\ err.value \in InfoErrorKinds =>
                /\ e.cls \in StringErrorClasses
                /\ e.args = <<err.info>>
                /\ StringError_str(e) = err.info
            /\ err.value = "template_parse" =>
                /\ Len(e.args) = 2
                /\ StringError_str(e) = err.info
                /\ q_side(e) = err.q_side
            /\ err.value \in {"interrupted", "ankiweb_auth_failed"} => e.args = <<>>
        ELSE e.tag = "fatal"

C2_Witness ==
    /\ Done
    /\ response = Out("error", [value |-> "template_parse", info |-> "bad tag",
                                q_side |-> TRUE])
    /\ cmdResult.exc.cls = "TemplateError"
    /\ q_side(cmdResult.exc)

\* C3: a response whose populated variant is neither "error" nor the variant of
\* the command that was sent never makes the typed method return a value.
C3_MismatchNeverReturns ==
    (Done /\ response.value \notin {"error", method}) => outcome.kind # "returned"

HasUnknownUnion(seq) == \E i \in 1..Len(seq) : seq[i].value = NONE

\* C4: a template requirement, AV tag or rendered node whose discriminant is
\* unknown or unset is rejected by its adapter, never decoded as a default
\* variant.
C4_AdaptersRejectUnknown ==
    (/\ Done
     /\ response.value = method
     /\ \/ method = "template_requirements" /\ HasUnknownUnion(response.payload.requirements)
        \/ method = "extract_av_tags" /\ HasUnknownUnion(response.payload.av_tags)
        \/ method = "render_card" /\ HasUnknownUnion(response.payload.question_nodes
                                                       \o response.payload.answer_nodes))
    => outcome.kind # "returned"

Decodable(p) == p.value = "media_sync" /\ p.media_sync.value # NONE

\* C5: for a progress notification that decodes, _on_progress invokes the
\* observer exactly once with the decoded event and hands the engine exactly
\* the observer's boolean; when decoding meets an unrecognized discriminant the
\* callback fails and the observer is not invoked.
C5_ObserverAnswerReturned ==
    cbResult.kind # "none" =>
        IF Decodable(lastProgress) THEN
            /\ cbResult.kind = "returned"
            /\ cbResult.calls = 1
            /\ cbResult.event.tag = "ok"
            /\ cbResult.event.val.cls # "none"
            /\ cbResult.value = observerAnswer
        ELSE
            /\ cbResult.kind = "fatal"
            /\ cbResult.calls = 0
            /\ observerAnswer = "none"

C5_Witness ==
    /\ cbResult.kind = "returned"
    /\ cbResult.calls = 1
    /\ observerAnswer = FALSE
    /\ cbResult.value = FALSE
    /\ phase = "inflight"

InterruptedOrCompleted ==
    outcome \in {Raised(Exc("Interrupted", <<>>)), Returned("None")}

IsAscending(s) == \A i \in 1..(Len(s) - 1) : s[i] <= s[i + 1]

Count(s, x) == Cardinality({i \in 1..Len(s) : s[i] = x})

SameElements(s, t) == Len(s) = Len(t) /\ \A x \in Ords : Count(s, x) = Count(t, x)

\* C7: proto_template_reqs_to_legacy returns a list as long as the wire list
\* whose i-th entry is (i, kind, ords), i counted from 0: for "any" and "all"
\* ords is the wire collection sorted ascending, for "none" it is empty.
C7_ReqsSortedByPosition ==
    (Done /\ method = "template_requirements" /\ response.value = "template_requirements") =>
        LET reqs == response.payload.requirements
            res == outcome.value IN
        /\ outcome.kind = "returned"
        /\ Len(res) = Len(reqs)
        /\ \A i \in 1..Len(reqs) :
            /\ res[i][1] = i - 1
            /\ reqs[i].value \in {"any", "all"} =>
                /\ res[i][2] = reqs[i].value
                /\ IsAscending(res[i][3])
                /\ SameElements(res[i][3], reqs[i].ords)
            /\ reqs[i].value = "none" => (res[i][2] = "none" /\ res[i][3] = <<>>)

C7_Witness ==
    /\ Done
    /\ method = "template_requirements"
    /\ response = Out("template_requirements",
                      [requirements |-> <<[value |-> "none", ords |-> <<>>],
                                          [value |-> "all", ords |-> <<1, 0>>]>>])
    /\ outcome = Returned(<<<<0, "none", <<>>>>, <<1, "all", <<0, 1>>>>>>)

\* C8: an invocation of a typed method makes exactly one engine command call;
\* an engine error is raised to the caller at once, without a second call and
\* without being turned into a return value, and the handle is left as it was,
\* ready for the next command.
C8_OneCallNoRetry ==
    /\ [](phase # "idle" => engineCalls = 1)
    /\ []((Done /\ response.value = "error") =>
            (outcome.kind = "raised" /\ state = "Open" /\ backend # 0))
    /\ [][phase = "inflight" =>
            (UNCHANGED handleVars /\ phase' \in {"inflight", "done"})]_vars
    /\ [][(phase = "inflight" /\ phase' = "inflight") => engineCalls' = engineCalls]_vars

C8_Witness ==
    /\ afterError
    /\ Done
    /\ engineCalls = 1
    /\ response.value = "error"
    /\ outcome.kind = "raised"

\* C9: proto_progress_to_native decodes each media-sync subkind to a Progress of
\* kind MediaSyncProgress holding the matching tagged value with its counts,
\* files and deletions of "uploaded" not exchanged; the four subkinds decode to
\* four different classes.
C9_ProgressDecoding ==
    (cbResult.kind = "returned" /\ Decodable(lastProgress)) =>
        LET ms == lastProgress.media_sync
            ev == cbResult.event IN
        /\ ev.kind = "MediaSyncProgress"
        /\ ms.value = "downloaded_changes" =>
            ev.val = [cls |-> "MediaSyncDownloadedChanges", changes |-> ms.downloaded_changes]
        /\ ms.value = "downloaded_files" =>
            ev.val = [cls |-> "MediaSyncDownloadedFiles", files |-> ms.downloaded_files]
        /\ ms.value = "uploaded" =>
            ev.val = [cls |-> "MediaSyncUploaded", files |-> ms.uploaded.files,
                      deletions |-> ms.uploaded.deletions]
        /\ ms.value = "removed_files" =>
            ev.val = [cls |-> "MediaSyncRemovedFiles", files |-> ms.removed_files]

C9_Witness ==
    /\ cbResult.kind = "returned"
    /\ lastProgress.media_sync.value = "uploaded"
    /\ lastProgress.media_sync.uploaded = [files |-> 1, deletions |-> 0]
    /\ cbResult.event.val = [cls |-> "MediaSyncUploaded", files |-> 1, deletions |-> 0]

\* C10: the constructor makes exactly one open call with the three paths as
\* given and then installs _on_progress; whenever a command is in the engine
\* the handle is Open with the callback installed, and the engine handle is
\* never replaced or reopened.
C10_Lifecycle ==
    /\ [](state = "Open" =>
            /\ openCalls = 1
            /\ backend # 0
            /\ initMsg = [collection_path |-> ctorArgs.col_path,
                          media_folder_path |-> ctorArgs.media_folder_path,
                          media_db_path |-> ctorArgs.media_db_path]
            /\ engineLog = <<"open_backend", "set_progress_callback">>
            /\ callback = "_on_progress")
    /\ [](phase = "inflight" =>
            (state = "Open" /\ backend # 0 /\ callback = "_on_progress"))
    /\ [][backend # 0 => (backend' = backend /\ openCalls' = openCalls)]_vars

C10_Witness ==
    /\ phase = "inflight"
    /\ state = "Open"
    /\ backend = 1
    /\ ctorArgs = [col_path |-> "/col.anki2", media_folder_path |-> "/media",
                   media_db_path |-> "/media.db"]
    /\ initMsg.media_db_path = "/media.db"

====
